---- MODULE Spec2Model ----
(***************************************************************************)
(* Model of vfp_documentation_scraper.py (class VFPDocScraper): a two      *)
(* level crawler (index page -> letter pages -> keyword pages) that        *)
(* extracts text and code fragments and writes one JSON archive.           *)
(*                                                                         *)
(* Representation.                                                         *)
(*  - A text string is a sequence of one-character strings; " " is the     *)
(*    whitespace character.                                                *)
(*  - A URL or href string is a sequence of lexical tokens ("https:",      *)
(*    "//", a host, "/", a path segment, "?", a query, "#", a fragment).   *)
(*    The ';params' part urlparse splits off is not modelled.              *)
(*  - A parsed document is its node list in document order; every node     *)
(*    carries the index of its parent (0 is the BeautifulSoup object).     *)
(*  - scraped_date (the wall clock at write time) is left out of the       *)
(*    archive.                                                             *)
(***************************************************************************)
EXTENDS Integers, Sequences, FiniteSets, TLC

VARIABLES site, file, pc, letter_links, li, keyword_links, ki,
          visited_urls, results, log, discovered

vars == <<site, file, pc, letter_links, li, keyword_links, ki,
          visited_urls, results, log, discovered>>

(***************************************************************************)
(* Strings                                                                 *)
(***************************************************************************)
Whitespace == {" "}

RECURSIVE LStrip(_)
LStrip(s) ==
  IF s = <<>> THEN <<>>
  ELSE IF Head(s) \in Whitespace THEN LStrip(Tail(s)) ELSE s

RECURSIVE RStrip(_)
RStrip(s) ==
  IF s = <<>> THEN <<>>
  ELSE IF s[Len(s)] \in Whitespace THEN RStrip(SubSeq(s, 1, Len(s) - 1)) ELSE s

\* str.strip()
Strip(s) == RStrip(LStrip(s))

\* str.isalpha() on a one-character string
AlphaChars ==
  {"A", "B", "C", "D", "E", "F", "G", "H", "I", "J", "K", "L", "M", "N", "O",
   "P", "Q", "R", "S", "T", "U", "V", "W", "X", "Y", "Z",
   "a", "b", "c", "d", "e", "f", "g", "h", "i", "j", "k", "l", "m", "n", "o",
   "p", "q", "r", "s", "t", "u", "v", "w", "x", "y", "z"}
IsAlpha(c) == c \in AlphaChars

(***************************************************************************)
(* urllib.parse: urlparse, urlunparse, urljoin                             *)
(***************************************************************************)
Schemes == {"https:", "http:"}

\* index of the first occurrence of tok in s, Len(s)+1 when there is none
RECURSIVE IndexOf(_, _, _)
IndexOf(s, tok, i) ==
  IF i > Len(s) THEN Len(s) + 1
  ELSE IF s[i] = tok THEN i ELSE IndexOf(s, tok, i + 1)

Min(a, b) == IF a < b THEN a ELSE b

\* urlsplit, stage by stage: each stage hands the parts found so far and the
\* rest of the string to the next
SplitQuery(scheme, netloc, rest, fragment) ==
  LET qAt == IndexOf(rest, "?", 1)
  IN [scheme |-> scheme, netloc |-> netloc, path |-> SubSeq(rest, 1, qAt - 1),
      query |-> SubSeq(rest, qAt + 1, Len(rest)), fragment |-> fragment]

SplitFragment(scheme, netloc, rest) ==
  LET hashAt == IndexOf(rest, "#", 1)
  IN SplitQuery(scheme, netloc, SubSeq(rest, 1, hashAt - 1),
                SubSeq(rest, hashAt + 1, Len(rest)))

\* the netloc ends at the first of '/', '?', '#'
NetlocEnd(rest) ==
  Min(IndexOf(rest, "/", 1), Min(IndexOf(rest, "?", 1), IndexOf(rest, "#", 1)))

SplitNetloc(scheme, rest) ==
  IF Len(rest) > 0 /\ rest[1] = "//"
  THEN SplitFragment(scheme, SubSeq(rest, 2, NetlocEnd(Tail(rest))),
                     SubSeq(rest, NetlocEnd(Tail(rest)) + 1, Len(rest)))
  ELSE SplitFragment(scheme, <<>>, rest)

urlparse(u) ==
  IF Len(u) > 0 /\ u[1] \in Schemes
  THEN SplitNetloc(<<u[1]>>, Tail(u))
  ELSE SplitNetloc(<<>>, u)

\* urlunsplit: a path that follows a netloc starts with '/'
RootedPath(netloc, path) ==
  IF netloc # <<>> /\ path # <<>> /\ path[1] # "/" THEN <<"/">> \o path ELSE path

urlunparse(p) ==
  p.scheme
  \o (IF p.netloc # <<>> THEN <<"//">> \o p.netloc ELSE <<>>)
  \o RootedPath(p.netloc, p.path)
  \o (IF p.query # <<>> THEN <<"?">> \o p.query ELSE <<>>)
  \o (IF p.fragment # <<>> THEN <<"#">> \o p.fragment ELSE <<>>)

\* path.split('/'): the segments of a path, "" for an empty segment
RECURSIVE SplitPath(_, _)
SplitPath(path, cur) ==
  IF path = <<>> THEN <<cur>>
  ELSE IF Head(path) = "/" THEN <<cur>> \o SplitPath(Tail(path), "")
  ELSE SplitPath(Tail(path), Head(path))

\* '/'.join(segments)
RECURSIVE JoinPath(_)
JoinPath(segs) ==
  IF segs = <<>> THEN <<>>
  ELSE (IF Head(segs) = "" THEN <<>> ELSE <<Head(segs)>>)
       \o (IF Len(segs) > 1 THEN <<"/">> \o JoinPath(Tail(segs)) ELSE <<>>)

\* segments[1:-1] = filter(None, segments[1:-1])
DropInnerEmpty(segs) ==
  IF Len(segs) <= 2 THEN segs
  ELSE <<segs[1]>>
       \o SelectSeq(SubSeq(segs, 2, Len(segs) - 1), LAMBDA x : x # "")
       \o <<segs[Len(segs)]>>

\* the dot-segment loop of urljoin
RECURSIVE ResolveDots(_, _)
ResolveDots(segs, acc) ==
  IF segs = <<>> THEN acc
  ELSE IF Head(segs) = ".."
       THEN ResolveDots(Tail(segs),
                        IF acc = <<>> THEN acc ELSE SubSeq(acc, 1, Len(acc) - 1))
  ELSE IF Head(segs) = "." THEN ResolveDots(Tail(segs), acc)
  ELSE ResolveDots(Tail(segs), Append(acc, Head(segs)))

\* the path urljoin gives a relative reference with a path (bpath, path are
\* the paths of the base and of the reference)
ResolvePath(segments) ==
  LET res0 == ResolveDots(segments, <<>>)
  IN JoinPath(IF segments[Len(segments)] \in {".", ".."} THEN Append(res0, "") ELSE res0)

BaseParts(parts) ==
  IF parts[Len(parts)] # "" THEN SubSeq(parts, 1, Len(parts) - 1) ELSE parts

OrRoot(joined) == IF joined = <<>> THEN <<"/">> ELSE joined

MergedPath(bpath, path) ==
  IF path[1] = "/"
  THEN OrRoot(ResolvePath(SplitPath(path, "")))
  ELSE OrRoot(ResolvePath(DropInnerEmpty(BaseParts(SplitPath(bpath, ""))
                                         \o SplitPath(path, ""))))

\* urljoin once both strings are parsed: b is the base, r the reference
\* (urlparse(url, bscheme): an absent scheme is the base's)
JoinParsed(b, r, url) ==
  IF r.scheme \notin {<<>>, b.scheme} THEN url
  ELSE IF r.netloc # <<>> THEN urlunparse([r EXCEPT !.scheme = b.scheme])
  ELSE IF r.path = <<>>
       THEN urlunparse([r EXCEPT !.scheme = b.scheme, !.netloc = b.netloc,
                                 !.path = b.path,
                                 !.query = IF @ = <<>> THEN b.query ELSE @])
  ELSE urlunparse([r EXCEPT !.scheme = b.scheme, !.netloc = b.netloc,
                            !.path = MergedPath(b.path, r.path)])

urljoin(base, url) ==
  IF url = <<>> THEN base ELSE JoinParsed(urlparse(base), urlparse(url), url)

\* a normalization that keeps the query string
Normalize_KeepQuery(full_url) ==
  urlparse(full_url).netloc \o urlparse(full_url).path \o urlparse(full_url).query

\* f"{parsed.netloc}{parsed.path}"
NetlocPath(parsed) == parsed.netloc \o parsed.path

\* parsed = urlparse(full_url); normalized_url = f"{parsed.netloc}{parsed.path}"
Normalize(full_url) == NetlocPath(urlparse(full_url))

\* 'section4/' in href
ContainsMarker(href) ==
  \E i \in 1..(Len(href) - 1) : href[i] = "section4" /\ href[i + 1] \in {"/", "//"}

\* href.startswith('#')
StartsWithHash(href) == Len(href) > 0 /\ href[1] = "#"

(***************************************************************************)
(* BeautifulSoup documents                                                 *)
(***************************************************************************)
\* constructors of nodes: an element, an <a> element with an href, a string
El(tag, parent) ==
  [tag |-> tag, parent |-> parent, hasHref |-> FALSE, href |-> <<>>, text |-> <<>>]
Anchor(parent, href) ==
  [tag |-> "a", parent |-> parent, hasHref |-> TRUE, href |-> href, text |-> <<>>]
Str(parent, text) ==
  [tag |-> "#text", parent |-> parent, hasHref |-> FALSE, href |-> <<>>, text |-> text]

\* node i lies below node e (e = 0 is the whole document)
RECURSIVE IsDescendant(_, _, _)
IsDescendant(doc, i, e) ==
  IF doc[i].parent = e THEN TRUE
  ELSE IF doc[i].parent = 0 THEN FALSE
  ELSE IsDescendant(doc, doc[i].parent, e)

\* the positions of the nodes of a document, in document order
Positions(doc) == [i \in 1..Len(doc) |-> i]

\* tag.find_all(names): the elements below root with one of the names, in
\* document order
find_all(doc, root, names) ==
  SelectSeq(Positions(doc), LAMBDA i : doc[i].tag \in names /\ IsDescendant(doc, i, root))

\* soup.find_all('a', href=True)
find_all_a_href(doc) ==
  SelectSeq(Positions(doc), LAMBDA i : doc[i].tag = "a" /\ doc[i].hasHref)

\* the strings below element e, in document order
StringsOf(doc, e) ==
  SelectSeq(Positions(doc), LAMBDA i : doc[i].tag = "#text" /\ IsDescendant(doc, i, e))

RECURSIVE ConcatAll(_)
ConcatAll(ss) == IF ss = <<>> THEN <<>> ELSE Head(ss) \o ConcatAll(Tail(ss))

\* tag.get_text(strip=True): every string is stripped, empty ones are dropped,
\* the rest are joined with no separator
get_text_strip(doc, e) ==
  LET strs     == StringsOf(doc, e)
      stripped == [k \in 1..Len(strs) |-> Strip(doc[strs[k]].text)]
  IN ConcatAll(SelectSeq(stripped, LAMBDA s : s # <<>>))

\* tag.text: the strings joined as they are
get_text(doc, e) ==
  LET strs == StringsOf(doc, e)
  IN ConcatAll([k \in 1..Len(strs) |-> doc[strs[k]].text])

\* soup.title, soup.body: the first element of that name, 0 when there is none
FirstTag(doc, name) ==
  LET hits == find_all(doc, 0, {name})
  IN IF hits = <<>> THEN 0 ELSE hits[1]

(***************************************************************************)
(* extract_keyword_content, after a successful fetch                       *)
(***************************************************************************)
NoTitle == <<"N", "o", " ", "t", "i", "t", "l", "e">>
TextTags == {"p", "h1", "h2", "h3", "h4", "h5", "h6", "li"}
CodeTags == {"pre", "code"}
NavTags  == {"nav", "header", "footer"}

ParentName(doc, i) ==
  IF doc[i].parent = 0 THEN "[document]" ELSE doc[doc[i].parent].tag

TitleOf(doc) ==
  IF FirstTag(doc, "title") # 0 THEN Strip(get_text(doc, FirstTag(doc, "title")))
  ELSE NoTitle

\* the loop of lines 53-60
SkipsNavParent(doc, i) == ParentName(doc, i) \in NavTags

TextContent(doc, body) ==
  LET els   == find_all(doc, body, TextTags)
      kept  == SelectSeq(els, LAMBDA i : ~SkipsNavParent(doc, i))
      texts == [k \in 1..Len(kept) |-> get_text_strip(doc, kept[k])]
  IN SelectSeq(texts, LAMBDA t : t # <<>>)

\* the loop of lines 64-67
CodeBlocks(doc, body) ==
  LET els   == find_all(doc, body, CodeTags)
      texts == [k \in 1..Len(els) |-> get_text_strip(doc, els[k])]
  IN SelectSeq(texts, LAMBDA t : t # <<>>)

extract_keyword_content(doc, url) ==
  LET body == FirstTag(doc, "body")
  IN IF body = 0
     THEN [url |-> url, title |-> TitleOf(doc),
           text_content |-> <<>>, code_blocks |-> <<>>]
     ELSE [url |-> url, title |-> TitleOf(doc),
           text_content |-> TextContent(doc, body),
           code_blocks |-> CodeBlocks(doc, body)]

(***************************************************************************)
(* Link discovery                                                          *)
(***************************************************************************)
\* the test without its length check
IsLetterText_AnyLength(link_text) ==
  (link_text # <<>> /\ \A k \in 1..Len(link_text) : IsAlpha(link_text[k]))
  \/ link_text = <<"@">>

\* (len(link_text) == 1 and link_text.isalpha()) or link_text == '@'
IsLetterText(link_text) ==
  (Len(link_text) = 1 /\ IsAlpha(link_text[1])) \/ link_text = <<"@">>

\* 'section4/' in href or href.startswith('#')
IsLetterHref(href) == ContainsMarker(href) \/ StartsWithHash(href)

\* the loop of lines 90-98
LetterLinks(doc, index_url) ==
  LET as   == find_all_a_href(doc)
      kept == SelectSeq(as, LAMBDA i : IsLetterText(get_text_strip(doc, i))
                                       /\ IsLetterHref(doc[i].href))
  IN [k \in 1..Len(kept) |->
        [letter |-> get_text_strip(doc, kept[k]),
         url    |-> urljoin(index_url, doc[kept[k]].href)]]

\* lines 134-138: the link is dropped when its normalized URL was visited,
\* else the URL is added to the visited set and the link kept. acc holds the
\* links kept so far and the visited set; `at` is the position of the anchor
\* in the page
VisitLink(acc, label, full_url, normalized, at) ==
  IF normalized \in acc.visited THEN acc
  ELSE [links   |-> Append(acc.links, [label |-> label, url |-> full_url, at |-> at]),
        visited |-> acc.visited \cup {normalized}]

\* lines 131-132
ConsiderLink(acc, label, full_url, at) ==
  VisitLink(acc, label, full_url, Normalize(full_url), at)

\* one pass of the loop of lines 122-138, for anchor a
ScanAnchor(doc, page_url, a, acc) ==
  IF ~ContainsMarker(doc[a].href) THEN acc
  ELSE ConsiderLink(acc, get_text_strip(doc, a), urljoin(page_url, doc[a].href), a)

\* the loop of lines 122-138 over the anchors as[k..]
RECURSIVE KeywordScan(_, _, _, _, _)
KeywordScan(doc, page_url, as, k, acc) ==
  IF k > Len(as) THEN acc
  ELSE KeywordScan(doc, page_url, as, k + 1, ScanAnchor(doc, page_url, as[k], acc))

KeywordLinks(doc, url, visited) ==
  KeywordScan(doc, url, find_all_a_href(doc), 1, [links |-> <<>>, visited |-> visited])


(***************************************************************************)
(* The web site and the output file the run works on                       *)
(***************************************************************************)
\* index_url of the __main__ block, with the host shortened to "h"
IndexUrl == <<"https:", "//", "h", "/", "section4", "/">>

Host == <<"h">>
PathOf(name) == <<"/", "section4", "/", name>>
KeyOf(name)  == Host \o PathOf(name)
IndexKey     == Host \o <<"/", "section4", "/">>

\* a document made of fragments placed below node `root` of `prefix`: a
\* fragment is a node list whose parents are relative (0 is `root`)
RECURSIVE Place(_, _, _)
Place(prefix, root, frags) ==
  IF frags = <<>> THEN prefix
  ELSE LET off   == Len(prefix)
           f     == Head(frags)
           moved == [k \in 1..Len(f) |->
                       [f[k] EXCEPT !.parent = IF @ = 0 THEN root ELSE @ + off]]
       IN Place(prefix \o moved, root, Tail(frags))

HtmlBody == <<El("html", 0), El("body", 1)>>
PageOf(frags) == Place(HtmlBody, 2, frags)

\* <a href=href>text</a>
Link(text, href) == <<Anchor(0, href), Str(1, text)>>

\* anchors an index page may hold
AnchorChoices ==
  { Link(<<"A">>, <<"/", "section4", "/", "a.html">>),
    Link(<<" ", "b", " ">>, <<"#", "b">>),
    Link(<<"@">>, <<"section4", "/", "at.html">>),
    Link(<<"A", "B">>, <<"/", "section4", "/", "a.html">>),
    Link(<<"A">>, <<"other.html">>),
    Link(<<"@">>, <<"/", "other", "/">>),
    Link(<<"1">>, <<"/", "section4", "/", "a.html">>),
    Link(<<"A", " ", "B">>, <<"#", "b">>),
    Link(<<" ">>, <<"/", "section4", "/", "a.html">>),
    \* <a href="#b">A<b>B</b></a>
    <<Anchor(0, <<"#", "b">>), Str(1, <<"A">>), El("b", 1), Str(3, <<"B">>)>>,
    \* <a href="/section4/a.html"> <b>A</b> </a>
    <<Anchor(0, <<"/", "section4", "/", "a.html">>), Str(1, <<" ">>), El("b", 1),
      Str(3, <<"A">>), Str(1, <<" ">>)>>,
    \* <a name="x">A</a>: no href
    <<El("a", 0), Str(1, <<"A">>)>> }

MaxIndexAnchors == 2

RECURSIVE SeqsUpTo(_, _)
SeqsUpTo(S, n) ==
  IF n = 0 THEN {<<>>}
  ELSE LET shorter == SeqsUpTo(S, n - 1)
       IN shorter \cup {Append(q, x) : q \in {r \in shorter : Len(r) = n - 1}, x \in S}

IndexDocs == {PageOf(frags) : frags \in SeqsUpTo(AnchorChoices, MaxIndexAnchors)}

\* sites that hold an index page only
IndexSites == {(IndexKey :> d) : d \in IndexDocs}

\* blocks a keyword page may hold
BlockChoices ==
  { <<El("h1", 0), Str(1, <<"T">>)>>,
    <<El("footer", 0), El("p", 1), Str(2, <<"x">>)>>,
    <<El("div", 0), El("p", 1), Str(2, <<" ", "y", " ">>)>>,
    <<El("nav", 0), El("li", 1), Str(2, <<"z">>)>>,
    <<El("p", 0), Str(1, <<" ">>)>>,
    \* <nav><div><li>w</li></div></nav>: nav is an ancestor, not the parent
    <<El("nav", 0), El("div", 1), El("li", 2), Str(3, <<"w">>)>>,
    \* <p>a <b>b</b></p>
    <<El("p", 0), Str(1, <<"a", " ">>), El("b", 1), Str(3, <<"b">>)>>,
    <<El("footer", 0), El("pre", 1), Str(2, <<"c">>)>>,
    <<El("code", 0), Str(1, <<" ">>)>>,
    \* <pre><code> d</code></pre>
    <<El("pre", 0), El("code", 1), Str(2, <<" ", "d">>)>>,
    \* <li><p>e</p></li>
    <<El("li", 0), El("p", 1), Str(2, <<"e">>)>> }

MaxBlocks == 2

TitledHead == <<El("html", 0), El("head", 1), El("title", 2),
                Str(3, <<" ", "K", "(", ")", " ">>), El("body", 1)>>

KeywordDocs ==
  {Place(TitledHead, 5, frags) : frags \in SeqsUpTo(BlockChoices, MaxBlocks)}
  \cup { \* no title
         PageOf(<< <<El("p", 0), Str(1, <<"x">>)>> >>),
         \* no body: <p>x</p> alone
         <<El("p", 0), Str(1, <<"x">>)>> }

OneLetterIndex == PageOf(<<Link(<<"K">>, PathOf("k.html"))>>)
OneKeywordPage == PageOf(<<Link(<<"K", "(", ")">>, PathOf("kw.html"))>>)

\* sites with one letter, one keyword and any keyword page
ExtractSites ==
  {(IndexKey :> OneLetterIndex) @@ (KeyOf("k.html") :> OneKeywordPage)
     @@ (KeyOf("kw.html") :> d) : d \in KeywordDocs}

\* the ABS() page: a heading, a paragraph in the footer, a <pre> block
AbsPage ==
  Place(<<El("html", 0), El("head", 1), El("title", 2),
          Str(3, <<"A", "B", "S", "(", ")">>), El("body", 1)>>, 5,
        << <<El("h1", 0), Str(1, <<"R">>)>>,
           <<El("footer", 0), El("p", 1), Str(2, <<"x">>)>>,
           <<El("pre", 0), Str(1, <<"?">>)>> >>)

PlainPage == PageOf(<< <<El("p", 0), Str(1, <<"y">>)>> >>)

\* two letters; the same keyword page linked three times under different
\* spellings, on both letter pages
SiteTwoLetters ==
  (IndexKey :> PageOf(<< Link(<<"A">>, PathOf("a.html")),
                         Link(<<"H", "o", "m", "e">>, <<"/">>),
                         Link(<<"@">>, <<"/", "section4", "/", "at.html">>) >>))
  @@ (KeyOf("a.html") :>
        PageOf(<< Link(<<"A", "B", "S">>, PathOf("abs.html")),
                  Link(<<"a", "b", "s">>,
                       <<"..", "/", "section4", "/", "abs.html", "#", "f">>),
                  Link(<<"u", "p">>, <<"index.html">>),
                  Link(<<"A", "C", "O", "S">>, PathOf("acos.html")) >>))
  @@ (KeyOf("at.html") :>
        PageOf(<< Link(<<"A", "B", "S">>,
                       <<"http:", "//", "h", "/", "section4", "/", "abs.html", "?", "q">>),
                  Link(<<"A", "T">>, <<"/", "section4", "/", "at2.html", "?", "q">>) >>))
  @@ (KeyOf("abs.html") :> AbsPage)
  @@ (KeyOf("acos.html") :> PlainPage)
  @@ (KeyOf("at2.html") :> PlainPage)

\* a letter listed twice, and a same-page anchor that makes the index its
\* own letter page
SiteRepeatedLetter ==
  (IndexKey :> PageOf(<< Link(<<"A">>, PathOf("a.html")),
                         Link(<<"A">>, PathOf("a.html")),
                         Link(<<"B">>, <<"#", "b">>) >>))
  @@ (KeyOf("a.html") :> PageOf(<< Link(<<"A", "B", "S">>, PathOf("abs.html")) >>))
  @@ (KeyOf("abs.html") :> AbsPage)

CrawlSites == {SiteTwoLetters, SiteRepeatedLetter}

Sites == CrawlSites \cup IndexSites \cup ExtractSites

NoFile == [kind |-> "absent", base_url |-> <<>>, total_keywords |-> 0, results |-> <<>>]
OldArchive ==
  [kind |-> "archive", base_url |-> IndexUrl, total_keywords |-> 1,
   results |-> <<[url |-> <<"old">>, title |-> NoTitle,
                  text_content |-> <<>>, code_blocks |-> <<>>]>>]

(***************************************************************************)
(* The run                                                                 *)
(***************************************************************************)
\* what the server holds at a URL: the fragment is not sent, the query does
\* not select the page
ServerKey(url) == NetlocPath(urlparse(url))

\* fetch_page(url): TRUE for a parsed document, FALSE for None
FetchOutcomes(url) == IF ServerKey(url) \in DOMAIN site THEN {TRUE, FALSE} ELSE {FALSE}
PageAt(url) == site[ServerKey(url)]

\* the lines fetch_page, time.sleep and save_results leave behind
FetchEvent(kind, url, ok) == [op |-> "fetch", kind |-> kind, url |-> url, ok |-> ok]
SleepEvent == [op |-> "sleep", kind |-> "-", url |-> <<>>, ok |-> TRUE]
SaveEvent  == [op |-> "save", kind |-> "-", url |-> <<>>, ok |-> TRUE]

Init ==
  /\ site \in Sites
  /\ file \in {NoFile, OldArchive}
  /\ pc = "start"
  /\ letter_links = <<>>
  /\ li = 1
  /\ keyword_links = <<>>
  /\ ki = 1
  /\ visited_urls = {}
  /\ results = <<>>
  /\ log = <<>>
  /\ discovered = <<>>

\* a failed index fetch that ends the process
AfterIndexFailure_Exit == "crashed"

\* where run() goes when the index cannot be fetched: scrape_alphabet_index
\* returns and save_results is next
AfterIndexFailure == "save"

\* scrape_alphabet_index up to its loop
scrape_alphabet_index ==
  /\ pc = "start"
  /\ \E ok \in FetchOutcomes(IndexUrl) :
       /\ log' = Append(log, FetchEvent("index", IndexUrl, ok))
       /\ IF ~ok
          THEN /\ pc' = AfterIndexFailure
               /\ UNCHANGED letter_links
          ELSE /\ letter_links' = LetterLinks(PageAt(IndexUrl), IndexUrl)
               /\ pc' = IF letter_links' = <<>> THEN "save" ELSE "letters"
  /\ li' = 1
  /\ UNCHANGED <<site, file, keyword_links, ki, visited_urls, results, discovered>>

\* a failed letter page that ends the walk
AfterLetterFailure_Abort == "save"

\* where scrape_letter_page goes when its fetch fails: it returns
AfterLetterFailure == "letter_sleep"

\* scrape_letter_page(letter, url) up to its keyword loop
scrape_letter_page ==
  /\ pc = "letters"
  /\ LET url == letter_links[li].url
     IN \E ok \in FetchOutcomes(url) :
          /\ log' = Append(log, FetchEvent("letter", url, ok))
          /\ IF ~ok
             THEN /\ pc' = AfterLetterFailure
                  /\ keyword_links' = <<>>
                  /\ UNCHANGED <<visited_urls, discovered>>
             ELSE LET scan == KeywordLinks(PageAt(url), url, visited_urls)
                  IN /\ keyword_links' = scan.links
                     /\ visited_urls' = scan.visited
                     /\ discovered' = discovered \o
                          [k \in 1..Len(scan.links) |->
                             [letter_idx |-> li, at |-> scan.links[k].at,
                              url |-> scan.links[k].url]]
                     /\ pc' = IF scan.links = <<>> THEN "letter_sleep" ELSE "keywords"
  /\ ki' = 1
  /\ UNCHANGED <<site, file, letter_links, li, results>>

\* a record put in front of the list
AppendResult_Prepend(rs, rec) == <<rec>> \o rs

\* self.results.append(keyword_data)
AppendResult(rs, rec) == Append(rs, rec)

\* a failed keyword page that ends the keyword loop, or is tried again
AfterKeywordFailure_Break == "letter_sleep"
AfterKeywordFailure_Retry == "keywords"

\* where the keyword loop goes after a page that could not be fetched
AfterKeywordFailure == "kw_sleep"

\* one pass of the keyword loop up to its sleep: extract_keyword_content
ProcessKeyword ==
  /\ pc = "keywords"
  /\ LET url == keyword_links[ki].url
     IN \E ok \in FetchOutcomes(url) :
          /\ log' = Append(log, FetchEvent("keyword", url, ok))
          /\ IF ok
             THEN /\ results' = AppendResult(results, extract_keyword_content(PageAt(url), url))
                  /\ pc' = "kw_sleep"
             ELSE /\ results' = results
                  /\ pc' = AfterKeywordFailure
  /\ UNCHANGED <<site, file, letter_links, li, keyword_links, ki, visited_urls,
                 discovered>>

\* time.sleep(1) of the keyword loop, and the step to the next keyword
KeywordSleep ==
  /\ pc = "kw_sleep"
  /\ log' = Append(log, SleepEvent)
  /\ ki' = ki + 1
  /\ pc' = IF ki + 1 > Len(keyword_links) THEN "letter_sleep" ELSE "keywords"
  /\ UNCHANGED <<site, file, letter_links, li, keyword_links, visited_urls,
                 results, discovered>>

\* time.sleep(1) of the letter loop, and the step to the next letter
LetterSleep ==
  /\ pc = "letter_sleep"
  /\ log' = Append(log, SleepEvent)
  /\ li' = li + 1
  /\ keyword_links' = <<>>
  /\ ki' = 1
  /\ pc' = IF li + 1 > Len(letter_links) THEN "save" ELSE "letters"
  /\ UNCHANGED <<site, file, letter_links, visited_urls, results, discovered>>

\* the dictionary json.dump is given
ArchiveOf(rs) ==
  [kind |-> "archive", base_url |-> IndexUrl, total_keywords |-> Len(rs), results |-> rs]

\* the file after json.dump failed having written the first k records
PartialOf(rs, k) ==
  [kind |-> "partial", base_url |-> IndexUrl, total_keywords |-> Len(rs),
   results |-> SubSeq(rs, 1, k)]

\* save_results: open() may raise, json.dump may raise part-way, or both pass
save_results ==
  /\ pc = "save"
  /\ log' = Append(log, SaveEvent)
  /\ \/ /\ file' = file
        /\ pc' = "crashed"
     \/ /\ \E k \in 0..Len(results) : file' = PartialOf(results, k)
        /\ pc' = "crashed"
     \/ /\ file' = ArchiveOf(results)
        /\ pc' = "done"
  /\ UNCHANGED <<site, letter_links, li, keyword_links, ki, visited_urls,
                 results, discovered>>

Next ==
  \/ scrape_alphabet_index
  \/ scrape_letter_page
  \/ ProcessKeyword
  \/ KeywordSleep
  \/ LetterSleep
  \/ save_results

Spec == Init /\ [][Next]_vars


(***************************************************************************)
(* Vocabulary of the properties                                            *)
(***************************************************************************)
\* scrape_alphabet_index has returned
WalkOver == pc \in {"save", "done", "crashed"}

\* host and path of an absolute URL: the scheme, the query string and the
\* fragment are cut off
HostPath(u) ==
  LET s   == IF u # <<>> /\ u[1] \in Schemes THEN Tail(u) ELSE u
      t   == IF s # <<>> /\ s[1] = "//" THEN Tail(s) ELSE s
      cut == Min(IndexOf(t, "?", 1), IndexOf(t, "#", 1))
  IN SubSeq(t, 1, cut - 1)

Fetches(kind) == SelectSeq(log, LAMBDA e : e.op = "fetch" /\ e.kind = kind)
UrlsOf(es) == [k \in 1..Len(es) |-> es[k].url]
IndexFetched == Len(log) > 0 /\ log[1].kind = "index" /\ log[1].ok
IndexFailed  == Len(log) > 0 /\ log[1].kind = "index" /\ ~log[1].ok

IsPrefix(a, b) == Len(a) <= Len(b) /\ SubSeq(b, 1, Len(a)) = a

\* the number of records whose URL has the given host and path
RecordsAt(hp) == Cardinality({i \in DOMAIN results : HostPath(results[i].url) = hp})

\* the keyword links of the site: anchor a of the page of letter link i, for
\* every letter link found on the index and every anchor whose href holds
\* the marker
LetterPageExists(i) == ServerKey(letter_links[i].url) \in DOMAIN site
LetterPage(i) == PageAt(letter_links[i].url)

LinkOccurrences ==
  UNION { { <<i, a>> : a \in {b \in DOMAIN LetterPage(i) :
                                 /\ LetterPage(i)[b].tag = "a"
                                 /\ LetterPage(i)[b].hasHref
                                 /\ ContainsMarker(LetterPage(i)[b].href)} }
          : i \in {k \in DOMAIN letter_links : LetterPageExists(k)} }

ResolvedUrl(o) == urljoin(letter_links[o[1]].url, LetterPage(o[1])[o[2]].href)

\* the keyword links on the letter pages the run has fetched
SeenOccurrences ==
  {o \in LinkOccurrences :
     o[1] <= Len(Fetches("letter")) /\ Fetches("letter")[o[1]].ok}

\* the step just taken was a fetch of this kind that failed
FailedFetchStep(kind) ==
  /\ Len(log') = Len(log) + 1
  /\ log'[Len(log')].op = "fetch"
  /\ log'[Len(log')].kind = kind
  /\ ~log'[Len(log')].ok

(***************************************************************************)
(* C1                                                                      *)
(***************************************************************************)
\* C1, as stated: at the end of the run, whenever two keyword links on
\* fetched letter pages resolve to URLs with the same host and path, exactly
\* one record with that host and path is in results.
C1_ExactlyOneRecord ==
  pc = "done" =>
    \A o1, o2 \in SeenOccurrences :
      (o1 # o2 /\ HostPath(ResolvedUrl(o1)) = HostPath(ResolvedUrl(o2)))
        => RecordsAt(HostPath(ResolvedUrl(o1))) = 1

\* C1, amended: whenever two keyword links on fetched letter pages resolve to
\* URLs with the same host and path, results never holds more than one
\* record with that host and path, and at the end of the run it holds exactly
\* one if the single fetch of that keyword page succeeded and none if it
\* failed.
C1_AtMostOneRecord ==
  \A o1, o2 \in SeenOccurrences :
    (o1 # o2 /\ HostPath(ResolvedUrl(o1)) = HostPath(ResolvedUrl(o2)))
      => LET hp   == HostPath(ResolvedUrl(o1))
             hits == {k \in DOMAIN log :
                        /\ log[k].op = "fetch" /\ log[k].kind = "keyword"
                        /\ HostPath(log[k].url) = hp}
         IN /\ RecordsAt(hp) <= 1
            /\ Cardinality(hits) <= 1
            /\ WalkOver =>
                 /\ Cardinality(hits) = 1
                 /\ \A k \in hits : RecordsAt(hp) = (IF log[k].ok THEN 1 ELSE 0)

\* two links on different letter pages, spelled differently, one record
C1_Witness ==
  /\ pc = "done"
  /\ \E o1, o2 \in SeenOccurrences :
       /\ o1[1] # o2[1]
       /\ ResolvedUrl(o1) # ResolvedUrl(o2)
       /\ HostPath(ResolvedUrl(o1)) = HostPath(ResolvedUrl(o2))
       /\ RecordsAt(HostPath(ResolvedUrl(o1))) = 1

(***************************************************************************)
(* C2                                                                      *)
(***************************************************************************)
\* every letter link found and every keyword link kept has been fetched, in
\* order, by the time the walk is over
AllLinksProcessed ==
  (WalkOver /\ IndexFetched) =>
     /\ UrlsOf(Fetches("letter")) = [k \in DOMAIN letter_links |-> letter_links[k].url]
     /\ UrlsOf(Fetches("keyword")) = [k \in DOMAIN discovered |-> discovered[k].url]

\* C2: a keyword page whose fetch fails appends no record and leaves results
\* as it was, and the keyword links kept after it and the later letter pages
\* are still processed.
C2_KeywordFailureSkipsOnlyThatPage ==
  /\ [][FailedFetchStep("keyword") => results' = results]_vars
  /\ []AllLinksProcessed

\* a failed keyword fetch followed by another keyword fetch of the same
\* letter page and by a later letter page
C2_Witness ==
  /\ WalkOver
  /\ \E i, j, k \in DOMAIN log :
       /\ i + 2 = j /\ j < k
       /\ log[i].op = "fetch" /\ log[i].kind = "keyword" /\ ~log[i].ok
       /\ log[j].op = "fetch" /\ log[j].kind = "keyword" /\ log[j].ok
       /\ log[k].op = "fetch" /\ log[k].kind = "letter"
  /\ Len(results) >= 2

(***************************************************************************)
(* C3                                                                      *)
(***************************************************************************)
\* after a failed letter fetch the next fetch, if any, is a letter fetch
NoKeywordAfterFailedLetter ==
  \A i, j \in DOMAIN log :
    (/\ i < j
     /\ log[i].op = "fetch" /\ log[i].kind = "letter" /\ ~log[i].ok
     /\ log[j].op = "fetch"
     /\ \A m \in (i + 1)..(j - 1) : log[m].op # "fetch")
      => log[j].kind = "letter"

\* C3: a letter page whose fetch fails is skipped: no keyword link is
\* discovered from it, visited_urls and results are unchanged, and the
\* remaining letter links are still processed in order.
C3_LetterFailureSkipsOnlyThatLetter ==
  /\ [][FailedFetchStep("letter") =>
          /\ visited_urls' = visited_urls
          /\ results' = results
          /\ discovered' = discovered
          /\ keyword_links' = <<>>
          /\ pc' \notin {"done", "crashed"}]_vars
  /\ [](NoKeywordAfterFailedLetter /\
        ((WalkOver /\ IndexFetched) =>
           UrlsOf(Fetches("letter")) =
             [k \in DOMAIN letter_links |-> letter_links[k].url]))

\* a failed letter fetch followed by a later letter page that yields a record
C3_Witness ==
  /\ WalkOver
  /\ \E i, j \in DOMAIN log :
       /\ i < j
       /\ log[i].op = "fetch" /\ log[i].kind = "letter" /\ ~log[i].ok
       /\ log[j].op = "fetch" /\ log[j].kind = "letter" /\ log[j].ok
  /\ Len(results) >= 1

(***************************************************************************)
(* C4                                                                      *)
(***************************************************************************)
\* position of a URL in the discovery history, 0 when it is not there
PosInDiscovered(u) ==
  IF \E k \in DOMAIN discovered : discovered[k].url = u
  THEN CHOOSE k \in DOMAIN discovered : discovered[k].url = u
  ELSE 0

\* the discovery history lists links letter by letter in the order of
\* letter_links, within a letter in document order, each entry an anchor of
\* that letter's page
DiscoveryOrdered ==
  /\ \A i, j \in DOMAIN discovered :
       i < j => \/ discovered[i].letter_idx < discovered[j].letter_idx
                \/ /\ discovered[i].letter_idx = discovered[j].letter_idx
                   /\ discovered[i].at < discovered[j].at
  /\ \A k \in DOMAIN discovered :
       <<discovered[k].letter_idx, discovered[k].at>> \in LinkOccurrences
       /\ ResolvedUrl(<<discovered[k].letter_idx, discovered[k].at>>) = discovered[k].url

ResultsInDiscoveryOrder ==
  /\ \A i \in DOMAIN results : PosInDiscovered(results[i].url) # 0
  /\ \A i, j \in DOMAIN results :
       i < j => PosInDiscovered(results[i].url) < PosInDiscovered(results[j].url)

\* C4: at every point results lists the extracted records in the order their
\* keyword links were discovered (letters in index order, keywords of a letter
\* in document order), and a record once appended is never moved or removed.
C4_ResultsInDiscoveryOrder ==
  /\ [][IsPrefix(results, results')]_vars
  /\ [](DiscoveryOrdered /\ ResultsInDiscoveryOrder)

\* three records: two of one letter page, one of a later letter page
C4_Witness ==
  /\ Len(results) = 3
  /\ discovered[PosInDiscovered(results[1].url)].letter_idx
       = discovered[PosInDiscovered(results[2].url)].letter_idx
  /\ discovered[PosInDiscovered(results[2].url)].letter_idx
       < discovered[PosInDiscovered(results[3].url)].letter_idx

(***************************************************************************)
(* C5                                                                      *)
(***************************************************************************)
\* C5: a pause follows every letter-page and keyword-page fetch: no fetch is
\* issued right after such a fetch without a sleep in between.
C5_PauseAfterEveryFetch ==
  \A i \in 1..(Len(log) - 1) :
    (log[i].op = "fetch" /\ log[i].kind \in {"letter", "keyword"})
      => log[i + 1].op # "fetch"

(***************************************************************************)
(* C6                                                                      *)
(***************************************************************************)
\* C6, as stated: fetch_page is never called a second time for the same page.
C6_NoPageFetchedTwice ==
  \A i, j \in DOMAIN log :
    (i < j /\ log[i].op = "fetch" /\ log[j].op = "fetch")
      => ServerKey(log[i].url) # ServerKey(log[j].url)

\* C6, amended: there are no retries: every link is attempted exactly once,
\* whether or not the attempt fails -- the root index once, each entry of
\* letter_links once and in order, each kept keyword link once and in order,
\* no two keyword fetches for the same host and path. A page is fetched again
\* only when another entry leads to it (a letter listed twice, a '#' anchor
\* that resolves to the index, a letter page linked as a keyword).
C6_OneAttemptPerLink ==
  /\ Len(Fetches("index")) <= 1
  /\ IsPrefix(UrlsOf(Fetches("letter")),
              [k \in DOMAIN letter_links |-> letter_links[k].url])
  /\ IsPrefix(UrlsOf(Fetches("keyword")),
              [k \in DOMAIN discovered |-> discovered[k].url])
  /\ \A i, j \in DOMAIN discovered :
       i # j => HostPath(discovered[i].url) # HostPath(discovered[j].url)
  /\ WalkOver => Len(Fetches("letter")) = Len(letter_links)

\* a failed attempt that was not repeated, in a run that fetched one page
\* through two entries
C6_Witness ==
  /\ WalkOver
  /\ \E i \in DOMAIN log : log[i].op = "fetch" /\ log[i].kind = "keyword" /\ ~log[i].ok
  /\ \E i \in DOMAIN log : log[i].op = "fetch" /\ log[i].kind = "letter" /\ ~log[i].ok
  /\ \E i, j \in DOMAIN log :
       /\ i < j /\ log[i].op = "fetch" /\ log[j].op = "fetch"
       /\ ServerKey(log[i].url) = ServerKey(log[j].url)

(***************************************************************************)
(* C7                                                                      *)
(***************************************************************************)
\* the visible text of an element, trimmed as a whole
TrimmedText(doc, e) == Strip(get_text(doc, e))

\* the letter links the rule of the claim selects from the index page
ExpectedLetterLinks ==
  LET doc  == site[IndexKey]
      hits == SelectSeq(Positions(doc),
                LAMBDA i :
                  /\ doc[i].tag = "a" /\ doc[i].hasHref
                  /\ \/ (Len(TrimmedText(doc, i)) = 1 /\ IsAlpha(TrimmedText(doc, i)[1]))
                     \/ TrimmedText(doc, i) = <<"@">>
                  /\ (ContainsMarker(doc[i].href) \/ StartsWithHash(doc[i].href)))
  IN [k \in 1..Len(hits) |->
        [letter |-> TrimmedText(doc, hits[k]), url |-> urljoin(IndexUrl, doc[hits[k]].href)]]

\* C7: a hyperlink of the index is kept as a letter link if and only if its
\* stripped visible text is one alphabetic character or '@' and its href
\* contains 'section4/' or starts with '#'; the kept links are in document
\* order, duplicates retained.
C7_LetterLinkRule == IndexFetched => letter_links = ExpectedLetterLinks

\* an index with a kept link and a link of two characters whose href
\* matches and which is not kept
C7_Witness ==
  /\ IndexFetched
  /\ Len(letter_links) = 1
  /\ \E i \in DOMAIN site[IndexKey] :
       /\ site[IndexKey][i].tag = "a" /\ site[IndexKey][i].hasHref
       /\ ContainsMarker(site[IndexKey][i].href)
       /\ Len(TrimmedText(site[IndexKey], i)) = 2

(***************************************************************************)
(* C8                                                                      *)
(***************************************************************************)
ExpectedTexts(doc, tags, skipNav) ==
  LET body  == FirstTag(doc, "body")
      hits  == SelectSeq(Positions(doc),
                 LAMBDA i :
                   /\ doc[i].tag \in tags
                   /\ IsDescendant(doc, i, body)
                   /\ (skipNav => ParentName(doc, i) \notin NavTags)
                   /\ TrimmedText(doc, i) # <<>>)
  IN [k \in 1..Len(hits) |-> TrimmedText(doc, hits[k])]

\* C8: for a fetched keyword page with a body, text_content is the sequence,
\* in document order, of the non-empty trimmed texts of the h1-h6, p and li
\* elements whose parent is not nav, header or footer, and code_blocks is the
\* sequence of the non-empty trimmed texts of all pre and code elements.
C8_TrimmedTexts ==
  \A i \in DOMAIN results :
    LET doc == PageAt(results[i].url)
    IN FirstTag(doc, "body") # 0 =>
         /\ results[i].text_content = ExpectedTexts(doc, TextTags, TRUE)
         /\ results[i].code_blocks = ExpectedTexts(doc, CodeTags, FALSE)

(***************************************************************************)
(* C9                                                                      *)
(***************************************************************************)
\* C9: when the write step fails, the file at the output path does not hold
\* a truncated or incomplete archive.
C9_NoPartialArchive == pc = "crashed" => file.kind # "partial"

(***************************************************************************)
(* C10                                                                     *)
(***************************************************************************)
\* C10: run() reaches save_results whatever the fetches do; when the index
\* fetch fails nothing else is fetched, visited_urls and results stay empty
\* and the archive written has total_keywords = 0 and no results; in every
\* run the written total_keywords is the length of the written results.
C10_SaveAlwaysReached ==
  /\ pc = "letters" => li \in DOMAIN letter_links
  /\ pc = "keywords" => ki \in DOMAIN keyword_links
  /\ pc \in {"done", "crashed"} => log[Len(log)].op = "save"
  /\ IndexFailed =>
       /\ \A k \in DOMAIN log : k > 1 => log[k].op # "fetch"
       /\ visited_urls = {}
       /\ results = <<>>
       /\ pc \in {"save", "done", "crashed"}
       /\ pc = "done" => (file.total_keywords = 0 /\ file.results = <<>>)
  /\ pc = "done" =>
       /\ file.kind = "archive"
       /\ file.results = results
       /\ file.total_keywords = Len(file.results)

\* the index fetch failed and the empty archive replaced the old one
C10_Witness ==
  /\ pc = "done"
  /\ IndexFailed
  /\ file = ArchiveOf(<<>>)
  /\ file # OldArchive


====
